---- MODULE Spec2Model ----
\* A model of nvme_exporter (src/main.go): the startup guards of main, the
\* collection pass nvmeCollector.Collect driven by scrapes, and the numeric
\* normalisation ToFloat.
\*
\* float64 values are fixed-point integers: the float v is the integer v * Scale.
\* Text is a sequence of one-character strings, so that comma removal and number
\* parsing are computed character by character.
EXTENDS Integers, Sequences, FiniteSets, TLC

\* ---------------------------------------------------------------- bounds
MaxDevices == 2     \* devices in one inventory response
MaxStrLen  == 4     \* length of the strings ToFloat is applied to in SpecToFloat
MaxConcDevices == 1 \* devices in one inventory response in SpecConcurrent

\* ---------------------------------------------------------------- float64
\* One unit of the fixed-point representation is 10^-(MaxStrLen - 1): every
\* decimal numeral of at most MaxStrLen characters (a point and at most
\* MaxStrLen - 1 fraction digits) is represented exactly.
Scale == 10 ^ (MaxStrLen - 1)

F(n) == n * Scale

\* ---------------------------------------------------------------- gjson.Result
\* Type, Str and Num of a gjson.Result. A key that is absent yields the zero
\* Result, whose Type is Null.
StringResult(s) == [Type |-> "String", Str |-> s, Num |-> 0]
NumberResult(n) == [Type |-> "Number", Str |-> <<>>, Num |-> n]
NullResult == [Type |-> "Null", Str |-> <<>>, Num |-> 0]

\* gjson.Result.Float(): the number of a Number, 0 of a Null.
\* (Strings never reach it: ToFloat handles them first.)
Float(value) == IF value.Type = "Number" THEN value.Num ELSE 0

\* strings.Replace(s, ",", "", n): removes the first n commas, all when n < 0.
RECURSIVE Replace(_, _)
Replace(s, n) ==
    IF s = <<>> THEN <<>>
    ELSE IF s[1] = "," /\ n # 0 THEN Replace(Tail(s), IF n < 0 THEN n ELSE n - 1)
    ELSE <<s[1]>> \o Replace(Tail(s), n)

\* ---------------------------------------------------------------- strconv.ParseFloat
Digits == {"0", "1", "2", "3", "4", "5", "6", "7", "8", "9"}

DigitVal(c) ==
    CASE c = "0" -> 0 [] c = "1" -> 1 [] c = "2" -> 2 [] c = "3" -> 3 [] c = "4" -> 4
      [] c = "5" -> 5 [] c = "6" -> 6 [] c = "7" -> 7 [] c = "8" -> 8 [] c = "9" -> 9

RECURSIVE DigitsVal(_)
DigitsVal(d) ==
    IF d = <<>> THEN 0
    ELSE DigitsVal(SubSeq(d, 1, Len(d) - 1)) * 10 + DigitVal(d[Len(d)])

\* The numeral without its optional sign.
Unsigned(s) == IF s # <<>> /\ s[1] \in {"+", "-"} THEN Tail(s) ELSE s

DotsOf(u) == {i \in 1..Len(u) : u[i] = "."}

\* The decimal numerals ParseFloat accepts among the texts built from digits,
\* sign, point and other characters: an optional sign, then digits with at most
\* one point and at least one digit ("1." and ".5" parse, "." and "" do not).
ParseFloatOk(s) ==
    LET u == Unsigned(s) IN
    /\ \A i \in 1..Len(u) : u[i] \in Digits \/ u[i] = "."
    /\ Cardinality(DotsOf(u)) <= 1
    /\ \E i \in 1..Len(u) : u[i] \in Digits

\* The value of an accepted numeral.
ParseFloatVal(s) ==
    LET u    == Unsigned(s)
        dot  == IF DotsOf(u) = {} THEN Len(u) + 1 ELSE CHOOSE i \in DotsOf(u) : TRUE
        ip   == SubSeq(u, 1, dot - 1)
        fp   == SubSeq(u, dot + 1, Len(u))
        mag  == DigitsVal(ip) * Scale + (DigitsVal(fp) * Scale) \div (10 ^ Len(fp))
    IN IF s[1] = "-" THEN 0 - mag ELSE mag

\* ---------------------------------------------------------------- ToFloat
\* A variant that removes only the first comma.
ToFloatFirstComma(value) ==
    IF value.Type = "String"
    THEN LET noCommas == Replace(value.Str, 1)
         IN IF ~ParseFloatOk(noCommas) THEN 0 ELSE ParseFloatVal(noCommas)
    ELSE Float(value)

\* A variant that passes the unparsed text's length on instead of 0.
ToFloatNoFallback(value) ==
    IF value.Type = "String"
    THEN LET noCommas == Replace(value.Str, 0 - 1)
         IN IF ~ParseFloatOk(noCommas) THEN F(Len(noCommas) + 1) ELSE ParseFloatVal(noCommas)
    ELSE Float(value)

ToFloat(value) ==
    IF value.Type = "String"
    THEN LET noCommas == Replace(value.Str, 0 - 1)
         IN IF ~ParseFloatOk(noCommas) THEN 0 ELSE ParseFloatVal(noCommas)
    ELSE Float(value)

\* ---------------------------------------------------------------- descriptors
\* var labels: the label names of every descriptor, in positional order.
labels == <<"device", "model">>

\* newNvmeCollector: the fully-qualified name of each descriptor field.
nvmeCollector ==
    [nvmeCriticalWarning    |-> "nvme_critical_warning",
     nvmeTemperature        |-> "nvme_temperature",
     nvmeAvailSpare         |-> "nvme_avail_spare",
     nvmeSpareThresh        |-> "nvme_spare_thresh",
     nvmePercentUsed        |-> "nvme_percent_used",
     nvmeEnduranceGrpCriticalWarningSummary
                            |-> "nvme_endurance_grp_critical_warning_summary",
     nvmeDataUnitsRead      |-> "nvme_data_units_read",
     nvmeDataUnitsWritten   |-> "nvme_data_units_written",
     nvmeHostReadCommands   |-> "nvme_host_read_commands",
     nvmeHostWriteCommands  |-> "nvme_host_write_commands",
     nvmeControllerBusyTime |-> "nvme_controller_busy_time",
     nvmePowerCycles        |-> "nvme_power_cycles",
     nvmePowerOnHours       |-> "nvme_power_on_hours",
     nvmeUnsafeShutdowns    |-> "nvme_unsafe_shutdowns",
     nvmeMediaErrors        |-> "nvme_media_errors",
     nvmeNumErrLogEntries   |-> "nvme_num_err_log_entries",
     nvmeWarningTempTime    |-> "nvme_warning_temp_time",
     nvmeCriticalCompTime   |-> "nvme_critical_comp_time",
     nvmeThmTemp1TransCount |-> "nvme_thm_temp1_trans_count",
     nvmeThmTemp2TransCount |-> "nvme_thm_temp2_trans_count",
     nvmeThmTemp1TotalTime  |-> "nvme_thm_temp1_trans_time",
     nvmeThmTemp2TotalTime  |-> "nvme_thm_temp2_trans_time"]

\* The keys handed to gjson.GetMany, in argument order.
GetManyKeys ==
    <<"critical_warning", "temperature", "avail_spare", "spare_thresh",
      "percent_used", "endurance_grp_critical_warning_summary",
      "data_units_read", "data_units_written", "host_read_commands",
      "host_write_commands", "controller_busy_time", "power_cycles",
      "power_on_hours", "unsafe_shutdowns", "media_errors",
      "num_err_log_entries", "warning_temp_time", "critical_comp_time",
      "thm_temp1_trans_count", "thm_temp2_trans_count",
      "thm_temp1_total_time", "thm_temp2_total_time">>

\* gjson.GetMany(json, keys...): one Result per key, in key order; the zero
\* Result for a key the object does not have.
GetMany(json, keys) ==
    [i \in 1..Len(keys) |->
        IF keys[i] \in DOMAIN json THEN json[keys[i]] ELSE NullResult]

E(desc, valueType, metric) == [desc |-> desc, valueType |-> valueType, metric |-> metric]

\* A variant that sends nvmeSpareThresh from the avail_spare slot and the
\* reverse.
EmitSwapped ==
    <<E("nvmeCriticalWarning", "GaugeValue", 1),
      E("nvmeTemperature", "GaugeValue", 2),
      E("nvmeAvailSpare", "GaugeValue", 4),
      E("nvmeSpareThresh", "GaugeValue", 3),
      E("nvmePercentUsed", "GaugeValue", 5),
      E("nvmeEnduranceGrpCriticalWarningSummary", "GaugeValue", 6),
      E("nvmeDataUnitsRead", "CounterValue", 7),
      E("nvmeDataUnitsWritten", "CounterValue", 8),
      E("nvmeHostReadCommands", "CounterValue", 9),
      E("nvmeHostWriteCommands", "CounterValue", 10),
      E("nvmeControllerBusyTime", "CounterValue", 11),
      E("nvmePowerCycles", "CounterValue", 12),
      E("nvmePowerOnHours", "CounterValue", 13),
      E("nvmeUnsafeShutdowns", "CounterValue", 14),
      E("nvmeMediaErrors", "CounterValue", 15),
      E("nvmeNumErrLogEntries", "CounterValue", 16),
      E("nvmeWarningTempTime", "CounterValue", 17),
      E("nvmeCriticalCompTime", "CounterValue", 18),
      E("nvmeThmTemp1TransCount", "CounterValue", 19),
      E("nvmeThmTemp2TransCount", "CounterValue", 20),
      E("nvmeThmTemp1TotalTime", "CounterValue", 21),
      E("nvmeThmTemp2TotalTime", "CounterValue", 22)>>

\* A variant that classifies power_on_hours as a gauge.
EmitPowerOnHoursGauge ==
    <<E("nvmeCriticalWarning", "GaugeValue", 1),
      E("nvmeTemperature", "GaugeValue", 2),
      E("nvmeAvailSpare", "GaugeValue", 3),
      E("nvmeSpareThresh", "GaugeValue", 4),
      E("nvmePercentUsed", "GaugeValue", 5),
      E("nvmeEnduranceGrpCriticalWarningSummary", "GaugeValue", 6),
      E("nvmeDataUnitsRead", "CounterValue", 7),
      E("nvmeDataUnitsWritten", "CounterValue", 8),
      E("nvmeHostReadCommands", "CounterValue", 9),
      E("nvmeHostWriteCommands", "CounterValue", 10),
      E("nvmeControllerBusyTime", "CounterValue", 11),
      E("nvmePowerCycles", "CounterValue", 12),
      E("nvmePowerOnHours", "GaugeValue", 13),
      E("nvmeUnsafeShutdowns", "CounterValue", 14),
      E("nvmeMediaErrors", "CounterValue", 15),
      E("nvmeNumErrLogEntries", "CounterValue", 16),
      E("nvmeWarningTempTime", "CounterValue", 17),
      E("nvmeCriticalCompTime", "CounterValue", 18),
      E("nvmeThmTemp1TransCount", "CounterValue", 19),
      E("nvmeThmTemp2TransCount", "CounterValue", 20),
      E("nvmeThmTemp1TotalTime", "CounterValue", 21),
      E("nvmeThmTemp2TotalTime", "CounterValue", 22)>>

\* The 22 sends of one loop iteration of Collect, in statement order: the
\* descriptor field, the value type, and the (1-based) slot of
\* nvmeSmartLogMetrics whose value is sent.
Emit ==
    <<E("nvmeCriticalWarning", "GaugeValue", 1),
      E("nvmeTemperature", "GaugeValue", 2),
      E("nvmeAvailSpare", "GaugeValue", 3),
      E("nvmeSpareThresh", "GaugeValue", 4),
      E("nvmePercentUsed", "GaugeValue", 5),
      E("nvmeEnduranceGrpCriticalWarningSummary", "GaugeValue", 6),
      E("nvmeDataUnitsRead", "CounterValue", 7),
      E("nvmeDataUnitsWritten", "CounterValue", 8),
      E("nvmeHostReadCommands", "CounterValue", 9),
      E("nvmeHostWriteCommands", "CounterValue", 10),
      E("nvmeControllerBusyTime", "CounterValue", 11),
      E("nvmePowerCycles", "CounterValue", 12),
      E("nvmePowerOnHours", "CounterValue", 13),
      E("nvmeUnsafeShutdowns", "CounterValue", 14),
      E("nvmeMediaErrors", "CounterValue", 15),
      E("nvmeNumErrLogEntries", "CounterValue", 16),
      E("nvmeWarningTempTime", "CounterValue", 17),
      E("nvmeCriticalCompTime", "CounterValue", 18),
      E("nvmeThmTemp1TransCount", "CounterValue", 19),
      E("nvmeThmTemp2TransCount", "CounterValue", 20),
      E("nvmeThmTemp1TotalTime", "CounterValue", 21),
      E("nvmeThmTemp2TotalTime", "CounterValue", 22)>>

\* prometheus.MustNewConstMetric(desc, valueType, value, labelValues...): the
\* label values are bound to the label names of var labels by position.
MustNewConstMetric(desc, valueType, value, lv1, lv2) ==
    [desc |-> desc, valueType |-> valueType, value |-> value,
     labels |-> [n \in {labels[1], labels[2]} |-> IF n = labels[1] THEN lv1 ELSE lv2]]

\* (K - 273.15) * 9/5 + 32 on the fixed-point representation.
Fahrenheit(k) == ((k - (27315 * Scale) \div 100) * 9) \div 5 + F(32)

\* A variant that converts the temperature slot to Fahrenheit before sending.
EmitValueFahrenheit(e, nvmeSmartLogMetrics) ==
    IF e.desc = "nvmeTemperature"
    THEN Fahrenheit(ToFloat(nvmeSmartLogMetrics[e.metric]))
    ELSE ToFloat(nvmeSmartLogMetrics[e.metric])

\* The value argument of one send: ToFloat(nvmeSmartLogMetrics[i]).
EmitValue(e, nvmeSmartLogMetrics) == ToFloat(nvmeSmartLogMetrics[e.metric])

\* ---------------------------------------------------------------- the nvme tool
\* What exec.Command(...).Output() hands back: err (the tool could not be run or
\* exited abnormally), and the text, which is either not JSON (valid = FALSE)
\* or the JSON value json.
ExecFailed == [err |-> TRUE, valid |-> FALSE, json |-> <<>>]
NotJSON == [err |-> FALSE, valid |-> FALSE, json |-> <<>>]
JSON(v) == [err |-> FALSE, valid |-> TRUE, json |-> v]

DevicePaths == <<"/dev/nvme0", "/dev/nvme1", "/dev/nvme2">>
ModelNumbers == {"Model X", "Model Y"}

\* The entries of the Devices array of `nvme list -o json`.
DeviceEntries ==
    [DevicePath : {DevicePaths[i] : i \in 1..Len(DevicePaths)}, ModelNumber : ModelNumbers]

PathNo(p) == CHOOSE i \in 1..Len(DevicePaths) : DevicePaths[i] = p

\* The inventories: at most MaxDevices entries, listed in device-name order,
\* no device listed twice.
Inventories ==
    {d \in UNION {[1..n -> DeviceEntries] : n \in 0..MaxDevices} :
        \A i, j \in 1..Len(d) : i < j => PathNo(d[i].DevicePath) < PathNo(d[j].DevicePath)}

ListOutputs == {ExecFailed, NotJSON} \cup {JSON([Devices |-> d]) : d \in Inventories}

\* A health log whose 22 keys are all native numbers, each key with a value of
\* its own.
PlainLog ==
    [critical_warning |-> NumberResult(F(0)),
     temperature |-> NumberResult(F(309)),
     avail_spare |-> NumberResult(F(100)),
     spare_thresh |-> NumberResult(F(10)),
     percent_used |-> NumberResult(F(3)),
     endurance_grp_critical_warning_summary |-> NumberResult(F(1)),
     data_units_read |-> NumberResult(F(11)),
     data_units_written |-> NumberResult(F(12)),
     host_read_commands |-> NumberResult(F(13)),
     host_write_commands |-> NumberResult(F(14)),
     controller_busy_time |-> NumberResult(F(15)),
     power_cycles |-> NumberResult(F(16)),
     power_on_hours |-> NumberResult(F(17)),
     unsafe_shutdowns |-> NumberResult(F(18)),
     media_errors |-> NumberResult(F(19)),
     num_err_log_entries |-> NumberResult(F(20)),
     warning_temp_time |-> NumberResult(F(21)),
     critical_comp_time |-> NumberResult(F(22)),
     thm_temp1_trans_count |-> NumberResult(F(23)),
     thm_temp2_trans_count |-> NumberResult(F(24)),
     thm_temp1_total_time |-> NumberResult(F(25)),
     thm_temp2_total_time |-> NumberResult(F(26))]

HealthLogKeys == DOMAIN PlainLog

\* The other encodings a drive gives the field q: a string with thousands
\* separators, a string that is no number, the empty string; for the
\* temperature also another reading.
QuirkValues(q) ==
    {StringResult(<<"1", ",", "2", "3", "4">>),
     StringResult(<<"N", "/", "A">>),
     StringResult(<<>>)}
      \cup (IF q = "temperature" THEN {NumberResult(F(300))} ELSE {})

\* The health logs of a drive whose key q is the unusual one: the plain log,
\* the plain log with q in another encoding, the plain log without q.
HealthLogs(q) ==
    {PlainLog}
      \cup {[PlainLog EXCEPT ![q] = v] : v \in QuirkValues(q)}
      \cup {[k \in HealthLogKeys \ {q} |-> PlainLog[k]]}

SmartLogOutputs(q) == {ExecFailed, NotJSON} \cup {JSON(l) : l \in HealthLogs(q)}

\* ---------------------------------------------------------------- state
VARIABLES
    pc,              \* "main", "serve" (listening, no pass running), "collect", "exit"
    fatal,           \* the message of the log.Fatal that ended the process, "" if none
    quirkKey,        \* the health-log key this host's drives encode unusually
    nvmeDeviceCmd,   \* Collect: the output of the inventory invocation
    nvmeDeviceList,  \* Collect: the DevicePath of each entry
    nvmeModelList,   \* Collect: the ModelNumber of each entry
    idx,             \* Collect: loop iterations finished
    smartLogs,       \* the output of each smart-log invocation of this pass
    calls,           \* the command lines executed by this pass
    ch,              \* the samples sent on the channel by this pass
    tfIn,            \* SpecToFloat: the gjson.Result ToFloat is applied to
    tfOut,           \* SpecToFloat: <<>>, or <<ToFloat's result>>
    env,             \* the host: what user.Current, exec.LookPath and the listener give
    collector,       \* the registered collector's descriptors, NoCollector before
    listening,       \* http.ListenAndServe has started the listener
    passes           \* SpecConcurrent: the locals of each running Collect call

vars == <<pc, fatal, quirkKey, nvmeDeviceCmd, nvmeDeviceList,
          nvmeModelList, idx, smartLogs, calls, ch, tfIn, tfOut,
          env, collector, listening, passes>>

passVars == <<nvmeDeviceCmd, nvmeDeviceList, nvmeModelList, idx, smartLogs, calls, ch>>

hostVars == <<env, collector, listening>>

\* The hosts: user.Current fails or names a user, exec.LookPath finds nvme or
\* not, the port can be listened on or not.
Hosts ==
    [userErr : BOOLEAN, Username : {"root", "nobody"}, lookPathErr : BOOLEAN,
     listenErr : BOOLEAN]

\* No collector has been constructed: every descriptor is empty.
NoCollector == [f \in DOMAIN nvmeCollector |-> ""]

\* The locals of a Collect call that is not running.
IdlePass ==
    [pc |-> "idle", nvmeDeviceCmd |-> NotJSON, nvmeDeviceList |-> <<>>,
     nvmeModelList |-> <<>>, idx |-> 0, smartLogs |-> <<>>, calls |-> <<>>,
     ch |-> <<>>]

\* The scrapes that can be in progress at the same time.
Passes == {1, 2}

Init ==
    /\ pc = "main"
    /\ fatal = ""
    /\ quirkKey \in HealthLogKeys
    /\ nvmeDeviceCmd = NotJSON
    /\ nvmeDeviceList = <<>>
    /\ nvmeModelList = <<>>
    /\ idx = 0
    /\ smartLogs = <<>>
    /\ calls = <<>>
    /\ ch = <<>>
    /\ tfIn = NullResult
    /\ tfOut = <<>>
    /\ env \in Hosts
    /\ collector = NoCollector
    /\ listening = FALSE
    /\ passes = [p \in Passes |-> IdlePass]

\* ---------------------------------------------------------------- main
\* A variant without the check of the user name.
GuardFatalNoRootCheck(e) ==
    IF e.userErr THEN "Error getting current user"
    ELSE IF e.lookPathErr THEN "Cannot find nvme command in path"
    ELSE ""

\* The log.Fatal of the startup guards, "" when both pass.
GuardFatal(e) ==
    IF e.userErr THEN "Error getting current user"
    ELSE IF e.Username # "root" THEN "Error: you must be root to use nvme-cli"
    ELSE IF e.lookPathErr THEN "Cannot find nvme command in path"
    ELSE ""

\* main: the startup guards, then the registration of a new collector, then
\* the listener, which serves until the process ends; log.Fatal if it cannot
\* be started.
Main ==
    /\ pc = "main"
    /\ IF GuardFatal(env) # ""
       THEN /\ fatal' = GuardFatal(env)
            /\ pc' = "exit"
            /\ UNCHANGED <<collector, listening>>
       ELSE /\ collector' = nvmeCollector
            /\ IF env.listenErr
               THEN /\ fatal' = "ListenAndServe"
                    /\ pc' = "exit"
                    /\ listening' = FALSE
               ELSE /\ fatal' = ""
                    /\ pc' = "serve"
                    /\ listening' = TRUE
    /\ UNCHANGED <<quirkKey, passVars, tfIn, tfOut, env, passes>>

\* ---------------------------------------------------------------- Collect
\* gjson.Get(json, "Devices.#.<field>").Array(): the field of every entry of
\* the Devices array that has it, in array order.
GetDevices(json, field) ==
    LET arr == IF "Devices" \in DOMAIN json THEN json.Devices ELSE <<>>
        has == SelectSeq(arr, LAMBDA e : field \in DOMAIN e)
    IN [i \in 1..Len(has) |-> has[i][field]]

\* A variant that also gives up when no device is listed.
ListFatalNoDevices(out) ==
    IF out.err THEN "Error running nvme command"
    ELSE IF ~out.valid \/ GetDevices(out.json, "DevicePath") = <<>>
         THEN "nvmeDeviceCmd json is not valid"
    ELSE ""

\* The log.Fatal of the inventory invocation, "" when it passes both checks.
ListFatal(out) ==
    IF out.err THEN "Error running nvme command"
    ELSE IF ~out.valid THEN "nvmeDeviceCmd json is not valid"
    ELSE ""

\* A variant that does not check that the output is JSON.
SmartLogFatalNoValid(out) ==
    IF out.err THEN "Error running nvme smart-log command" ELSE ""

\* A variant that takes a health log without one of its keys for invalid.
SmartLogFatalMissingKey(out) ==
    IF out.err THEN "Error running nvme smart-log command"
    ELSE IF ~out.valid \/ \E i \in 1..Len(GetManyKeys) : GetManyKeys[i] \notin DOMAIN out.json
         THEN "nvmeSmartLog json is not valid"
    ELSE ""

\* The log.Fatal of one smart-log invocation, "" when it passes both checks.
SmartLogFatal(out) ==
    IF out.err THEN "Error running nvme smart-log command"
    ELSE IF ~out.valid THEN "nvmeSmartLog json is not valid"
    ELSE ""

\* A variant that labels every device with the first entry's model.
ModelOfFirst(models, i) == models[1]

\* nvmeModel := nvmeModelList[idx]   (i is idx + 1: sequences start at 1)
ModelOf(models, i) == models[i]

\* A variant that queries the first device in every iteration.
SmartLogCmdFirst(devices, i) == <<"nvme", "smart-log", devices[1], "-o", "json">>

\* The command line of the smart-log invocation of iteration i.
SmartLogCmd(devices, i) == <<"nvme", "smart-log", devices[i], "-o", "json">>

ListCmd == <<"nvme", "list", "-o", "json">>

\* The 22 samples one iteration sends, in statement order, each with the
\* descriptor read from the collector.
Samples(json, nvmeDevice, nvmeModel) ==
    LET nvmeSmartLogMetrics == GetMany(json, GetManyKeys)
    IN [j \in 1..Len(Emit) |->
          MustNewConstMetric(collector[Emit[j].desc], Emit[j].valueType,
                             EmitValue(Emit[j], nvmeSmartLogMetrics),
                             nvmeDevice, nvmeModel)]

\* A scrape arrives and Collect runs up to the loop: the inventory invocation,
\* its two checks, the two extractions.
CollectList ==
    /\ pc = "serve"
    /\ \E out \in ListOutputs :
        /\ nvmeDeviceCmd' = out
        /\ calls' = <<ListCmd>>
        /\ fatal' = ListFatal(out)
        /\ IF ListFatal(out) # ""
           THEN /\ pc' = "exit"
                /\ nvmeDeviceList' = <<>>
                /\ nvmeModelList' = <<>>
           ELSE /\ pc' = "collect"
                /\ nvmeDeviceList' = GetDevices(out.json, "DevicePath")
                /\ nvmeModelList' = GetDevices(out.json, "ModelNumber")
    /\ idx' = 0
    /\ smartLogs' = <<>>
    /\ ch' = <<>>
    /\ UNCHANGED <<quirkKey, tfIn, tfOut, hostVars, passes>>

\* One iteration of the loop over nvmeDeviceList.
CollectDevice ==
    /\ pc = "collect"
    /\ idx < Len(nvmeDeviceList)
    /\ IF idx + 1 > Len(nvmeModelList)
       THEN \* nvmeModelList[idx] is out of range: the runtime panics
            /\ pc' = "exit"
            /\ fatal' = "panic: index out of range"
            /\ UNCHANGED <<idx, smartLogs, calls, ch>>
       ELSE \E out \in SmartLogOutputs(quirkKey) :
            /\ calls' = Append(calls, SmartLogCmd(nvmeDeviceList, idx + 1))
            /\ smartLogs' = Append(smartLogs, out)
            /\ fatal' = SmartLogFatal(out)
            /\ IF SmartLogFatal(out) # ""
               THEN /\ pc' = "exit"
                    /\ UNCHANGED <<idx, ch>>
               ELSE /\ pc' = "collect"
                    /\ idx' = idx + 1
                    /\ ch' = ch \o Samples(out.json, nvmeDeviceList[idx + 1],
                                           ModelOf(nvmeModelList, idx + 1))
    /\ UNCHANGED <<quirkKey, nvmeDeviceCmd, nvmeDeviceList, nvmeModelList,
                   tfIn, tfOut, hostVars, passes>>

\* The loop is over: Collect returns, its locals and the drained channel are
\* gone, and the scrape is answered.
CollectReturn ==
    /\ pc = "collect"
    /\ idx = Len(nvmeDeviceList)
    /\ pc' = "serve"
    /\ nvmeDeviceCmd' = NotJSON
    /\ nvmeDeviceList' = <<>>
    /\ nvmeModelList' = <<>>
    /\ idx' = 0
    /\ smartLogs' = <<>>
    /\ calls' = <<>>
    /\ ch' = <<>>
    /\ UNCHANGED <<fatal, quirkKey, tfIn, tfOut, hostVars, passes>>

Next == Main \/ CollectList \/ CollectDevice \/ CollectReturn

Spec == Init /\ [][Next]_vars

\* ---------------------------------------------------------------- SpecToFloat
\* ToFloat alone, applied to every text of at most MaxStrLen characters.
Chars == {"0", "1", "2", ",", ".", "-", "N"}

Texts == UNION {[1..n -> Chars] : n \in 0..MaxStrLen}

ToFloatInputs ==
    {StringResult(s) : s \in Texts} \cup {NumberResult(F(n)) : n \in {0, 309}}
      \cup {NullResult}

InitToFloat ==
    /\ pc = "tofloat"
    /\ fatal = ""
    /\ quirkKey = "temperature"
    /\ nvmeDeviceCmd = NotJSON
    /\ nvmeDeviceList = <<>>
    /\ nvmeModelList = <<>>
    /\ idx = 0
    /\ smartLogs = <<>>
    /\ calls = <<>>
    /\ ch = <<>>
    /\ tfIn \in ToFloatInputs
    /\ tfOut = <<>>
    /\ env = [userErr |-> FALSE, Username |-> "root", lookPathErr |-> FALSE,
              listenErr |-> FALSE]
    /\ collector = NoCollector
    /\ listening = FALSE
    /\ passes = [p \in Passes |-> IdlePass]

ApplyToFloat ==
    /\ pc = "tofloat"
    /\ tfOut = <<>>
    /\ tfOut' = <<ToFloat(tfIn)>>
    /\ UNCHANGED <<pc, fatal, quirkKey, passVars, tfIn, hostVars, passes>>

SpecToFloat == InitToFloat /\ [][ApplyToFloat]_vars

\* ---------------------------------------------------------------- SpecConcurrent
\* Two scrapes in progress at once: the handler runs one Collect call per
\* scrape, each in its own goroutine with its own locals and its own channel.
\* Every external invocation is one step, so the calls interleave at every
\* invocation. log.Fatal in either call ends the process for both.
ConcurrentListOutputs ==
    {NotJSON} \cup {JSON([Devices |-> d]) : d \in {i \in Inventories : Len(i) <= MaxConcDevices}}

ConcurrentSmartLogOutputs ==
    {ExecFailed, JSON(PlainLog),
     JSON([PlainLog EXCEPT !["temperature"] = NumberResult(F(300))]),
     JSON([PlainLog EXCEPT !["data_units_read"] = StringResult(<<"1", ",", "2", "3", "4">>)])}

\* A variant in which nvmeModelList is one variable that all calls share (the
\* one the first call wrote).
NvmeModelListShared(p) == passes[1].nvmeModelList

\* nvmeModelList is a local of the Collect call p.
NvmeModelListOf(p) == passes[p].nvmeModelList

InitConcurrent ==
    /\ pc = "main"
    /\ fatal = ""
    /\ quirkKey = "temperature"
    /\ nvmeDeviceCmd = NotJSON
    /\ nvmeDeviceList = <<>>
    /\ nvmeModelList = <<>>
    /\ idx = 0
    /\ smartLogs = <<>>
    /\ calls = <<>>
    /\ ch = <<>>
    /\ tfIn = NullResult
    /\ tfOut = <<>>
    /\ env \in Hosts
    /\ collector = NoCollector
    /\ listening = FALSE
    /\ passes = [p \in Passes |-> IdlePass]

\* A scrape arrives and call p runs up to the loop.
ConcCollectList(p) ==
    /\ pc = "serve"
    /\ passes[p].pc = "idle"
    /\ \E out \in ConcurrentListOutputs :
        /\ fatal' = ListFatal(out)
        /\ pc' = IF ListFatal(out) # "" THEN "exit" ELSE "serve"
        /\ passes' = [passes EXCEPT ![p] =
              [pc |-> "collect",
               nvmeDeviceCmd |-> out,
               nvmeDeviceList |-> IF ListFatal(out) # "" THEN <<>>
                                  ELSE GetDevices(out.json, "DevicePath"),
               nvmeModelList |-> IF ListFatal(out) # "" THEN <<>>
                                 ELSE GetDevices(out.json, "ModelNumber"),
               idx |-> 0,
               smartLogs |-> <<>>,
               calls |-> <<ListCmd>>,
               ch |-> <<>>]]
    /\ UNCHANGED <<quirkKey, passVars, tfIn, tfOut, hostVars>>

\* One iteration of the loop of call p.
ConcCollectDevice(p) ==
    LET l == passes[p] IN
    /\ pc = "serve"
    /\ l.pc = "collect"
    /\ l.idx < Len(l.nvmeDeviceList)
    /\ IF l.idx + 1 > Len(NvmeModelListOf(p))
       THEN \* nvmeModelList[idx] is out of range: the runtime panics
            /\ pc' = "exit"
            /\ fatal' = "panic: index out of range"
            /\ UNCHANGED passes
       ELSE \E out \in ConcurrentSmartLogOutputs :
            /\ fatal' = SmartLogFatal(out)
            /\ pc' = IF SmartLogFatal(out) # "" THEN "exit" ELSE "serve"
            /\ passes' = [passes EXCEPT ![p] =
                  [l EXCEPT
                    !.calls = Append(l.calls, SmartLogCmd(l.nvmeDeviceList, l.idx + 1)),
                    !.smartLogs = Append(l.smartLogs, out),
                    !.idx = IF SmartLogFatal(out) # "" THEN l.idx ELSE l.idx + 1,
                    !.ch = IF SmartLogFatal(out) # "" THEN l.ch
                           ELSE l.ch \o Samples(out.json, l.nvmeDeviceList[l.idx + 1],
                                                ModelOf(NvmeModelListOf(p), l.idx + 1))]]
    /\ UNCHANGED <<quirkKey, passVars, tfIn, tfOut, hostVars>>

\* The loop of call p is over: it returns and its locals are gone.
ConcCollectReturn(p) ==
    /\ pc = "serve"
    /\ passes[p].pc = "collect"
    /\ passes[p].idx = Len(passes[p].nvmeDeviceList)
    /\ passes' = [passes EXCEPT ![p] = IdlePass]
    /\ UNCHANGED <<pc, fatal, quirkKey, passVars, tfIn, tfOut, hostVars>>

ConcStart == \E p \in Passes : ConcCollectList(p)

ConcStep == \E p \in Passes : ConcCollectDevice(p)

ConcEnd == \E p \in Passes : ConcCollectReturn(p)

NextConcurrent == Main \/ ConcStart \/ ConcStep \/ ConcEnd

SpecConcurrent == InitConcurrent /\ [][NextConcurrent]_vars

\* ================================================================ properties
\* The 22 declared metrics and the canonical key list, as the specification
\* lists them (section 6), position by position.
DeclaredMetrics ==
    <<"nvme_critical_warning", "nvme_temperature", "nvme_avail_spare",
      "nvme_spare_thresh", "nvme_percent_used",
      "nvme_endurance_grp_critical_warning_summary", "nvme_data_units_read",
      "nvme_data_units_written", "nvme_host_read_commands",
      "nvme_host_write_commands", "nvme_controller_busy_time",
      "nvme_power_cycles", "nvme_power_on_hours", "nvme_unsafe_shutdowns",
      "nvme_media_errors", "nvme_num_err_log_entries", "nvme_warning_temp_time",
      "nvme_critical_comp_time", "nvme_thm_temp1_trans_count",
      "nvme_thm_temp2_trans_count", "nvme_thm_temp1_trans_time",
      "nvme_thm_temp2_trans_time">>

CanonicalKeys ==
    <<"critical_warning", "temperature", "avail_spare", "spare_thresh",
      "percent_used", "endurance_grp_critical_warning_summary",
      "data_units_read", "data_units_written", "host_read_commands",
      "host_write_commands", "controller_busy_time", "power_cycles",
      "power_on_hours", "unsafe_shutdowns", "media_errors",
      "num_err_log_entries", "warning_temp_time", "critical_comp_time",
      "thm_temp1_trans_count", "thm_temp2_trans_count",
      "thm_temp1_total_time", "thm_temp2_total_time">>

NumMetrics == Len(DeclaredMetrics)

\* The Devices array of the inventory response this pass received.
Devs == IF nvmeDeviceCmd.valid THEN nvmeDeviceCmd.json.Devices ELSE <<>>

\* A pass has run its loop to the end and is about to return.
PassComplete == pc = "collect" /\ idx = Len(nvmeDeviceList)

\* The raw value of a key in a health log, the zero Result when absent.
RawOf(log, key) == IF key \in DOMAIN log THEN log[key] ELSE NullResult

\* The smart-log invocations of this pass for device path p (positions in
\* smartLogs).
QueriesOf(p) == {i \in 1..Len(smartLogs) : calls[i + 1][3] = p}

\* C1: when a collection pass reaches its end without a fatal error, every
\* device of the inventory response has, for each of the 22 declared metrics,
\* exactly one sample; that sample's value is the normalised value of the
\* health-log key at the same position of the canonical key list, in the health
\* log obtained for that device; its labels are the device's path and model;
\* and the pass has sent no other sample.
C1_EveryMetricOncePerDevice ==
    PassComplete =>
        /\ Len(ch) = NumMetrics * Len(Devs)
        /\ \A d \in 1..Len(Devs) :
            LET p  == Devs[d].DevicePath
                Sd == {j \in 1..Len(ch) : ch[j].labels["device"] = p}
                Qd == QueriesOf(p)
            IN
            /\ Cardinality(Qd) = 1
            /\ \A j \in Sd :
                /\ ch[j].labels["model"] = Devs[d].ModelNumber
                /\ DOMAIN ch[j].labels = {"device", "model"}
            /\ \A m \in 1..NumMetrics :
                LET S == {j \in Sd : ch[j].desc = DeclaredMetrics[m]} IN
                /\ Cardinality(S) = 1
                /\ \A j \in S : \A i \in Qd :
                    ch[j].value = ToFloat(RawOf(smartLogs[i].json, CanonicalKeys[m]))

\* A pass over two devices has ended, one of them with a health log that is
\* not the plain one.
C1_Witness ==
    /\ PassComplete
    /\ Len(Devs) = 2
    /\ Len(ch) = 2 * NumMetrics
    /\ smartLogs[1].json = PlainLog
    /\ smartLogs[2].json # PlainLog

\* C2: every sample labelled with device path p carries the ModelNumber of the
\* Devices entry whose DevicePath is p, and the samples of the Nth loop
\* iteration carry the path and the model of the Nth entry.
C2_ModelOfSameEntry ==
    \A j \in 1..Len(ch) :
        /\ \A d \in 1..Len(Devs) :
            ch[j].labels["device"] = Devs[d].DevicePath
                => ch[j].labels["model"] = Devs[d].ModelNumber
        /\ LET n == ((j - 1) \div NumMetrics) + 1 IN
            /\ n <= Len(Devs)
            /\ ch[j].labels["device"] = Devs[n].DevicePath
            /\ ch[j].labels["model"] = Devs[n].ModelNumber

\* Samples of two devices with different models have been sent.
C2_Witness ==
    /\ Len(Devs) = 2
    /\ Devs[1].ModelNumber # Devs[2].ModelNumber
    /\ Len(ch) = 2 * NumMetrics
    /\ ch[Len(ch)].labels["model"] = Devs[2].ModelNumber

\* The command lines of a whole pass over the inventory devs.
ExpectedCalls(devs) ==
    <<<<"nvme", "list", "-o", "json">>>>
        \o [i \in 1..Len(devs) |-> <<"nvme", "smart-log", devs[i].DevicePath, "-o", "json">>]

\* C3: with a well-formed inventory response of N devices, the invocations of
\* a pass are at every moment a prefix of: the inventory invocation, then one
\* health-log invocation per device in inventory order with that device's path;
\* when the pass ends they are exactly that sequence (N health-log invocations).
C3_OneQueryPerDeviceInOrder ==
    (pc \in {"collect", "exit"} /\ nvmeDeviceCmd.valid) =>
        /\ Len(calls) >= 1
        /\ Len(calls) <= Len(Devs) + 1
        /\ calls = SubSeq(ExpectedCalls(Devs), 1, Len(calls))
        /\ PassComplete => calls = ExpectedCalls(Devs)

\* A pass over two devices has ended after three invocations.
C3_Witness ==
    /\ PassComplete
    /\ Len(Devs) = 2
    /\ Len(calls) = 3
    /\ calls[2][3] = Devs[1].DevicePath
    /\ calls[3][3] = Devs[2].DevicePath

\* An invocation that failed or whose output is not well-formed JSON.
Failed(out) == out.err \/ ~out.valid

\* The state part of C4: a failed inventory invocation leaves the process
\* terminated with that single invocation made and no sample sent; a failed
\* health-log invocation is the last invocation of the process, which is
\* terminated with the samples of the earlier devices only.
C4_FailureState ==
    /\ (calls # <<>> /\ Failed(nvmeDeviceCmd)) =>
            /\ pc = "exit"
            /\ fatal # ""
            /\ calls = <<ListCmd>>
            /\ ch = <<>>
    /\ \A i \in 1..Len(smartLogs) :
        Failed(smartLogs[i]) =>
            /\ pc = "exit"
            /\ fatal # ""
            /\ i = Len(smartLogs)
            /\ Len(calls) = i + 1
            /\ Len(ch) = NumMetrics * (i - 1)
            /\ \A j \in 1..Len(ch) : \A d \in i..Len(Devs) :
                ch[j].labels["device"] # Devs[d].DevicePath

\* C4: if the inventory invocation or the health-log invocation of some device
\* fails or returns text that is not well-formed JSON, the process terminates
\* at that point: no sample has been sent for the failing device or a later
\* one, and once terminated the process takes no further step (no device is
\* queried, no sample sent, no scrape served).
C4_FailureTerminatesProcess ==
    /\ []C4_FailureState
    /\ [][pc # "exit"]_vars

\* The health-log invocation of the second of two devices has failed after the
\* first device's samples were sent.
C4_Witness ==
    /\ pc = "exit"
    /\ Len(Devs) = 2
    /\ Len(smartLogs) = 2
    /\ ~Failed(smartLogs[1])
    /\ Failed(smartLogs[2])
    /\ Len(ch) = NumMetrics

\* A health log that is well-formed JSON and lacks at least one required key.
LacksKey(out) ==
    out.valid /\ \E m \in 1..NumMetrics : CanonicalKeys[m] \notin DOMAIN out.json

\* C5 as stated: a well-formed health log that lacks a required key terminates
\* the process, and no sample is sent for the absent field.
C5_MissingKeyIsFatal ==
    \A i \in 1..Len(smartLogs) :
        LacksKey(smartLogs[i]) =>
            /\ pc = "exit"
            /\ \A m \in 1..NumMetrics :
                CanonicalKeys[m] \notin DOMAIN smartLogs[i].json =>
                    \A j \in 1..Len(ch) :
                        ~(/\ ch[j].desc = DeclaredMetrics[m]
                          /\ ch[j].labels["device"] = calls[i + 1][3])

\* C5, amended: a well-formed health log that lacks a required key is no
\* error. The device's 22 samples are sent, the sample of the absent field with
\* value 0, and the process is not terminated by that response (if it is
\* terminated, a later invocation failed).
C5_MissingKeyYieldsZero ==
    \A i \in 1..Len(smartLogs) :
        LacksKey(smartLogs[i]) =>
            /\ Len(ch) >= NumMetrics * i
            /\ pc = "exit" => i < Len(smartLogs) /\ Failed(smartLogs[Len(smartLogs)])
            /\ \A m \in 1..NumMetrics :
                LET j == NumMetrics * (i - 1) + m IN
                /\ ch[j].desc = DeclaredMetrics[m]
                /\ ch[j].labels["device"] = calls[i + 1][3]
                /\ CanonicalKeys[m] \notin DOMAIN smartLogs[i].json => ch[j].value = 0

\* The first device's health log lacked a key, and the pass went on to the
\* second device and to its end.
C5_Witness ==
    /\ PassComplete
    /\ Len(Devs) = 2
    /\ LacksKey(smartLogs[1])
    /\ Len(ch) = 2 * NumMetrics

\* The temperature samples of the pass: <<position in smartLogs, sample>>.
TemperatureSamples ==
    {<<i, j>> \in (1..Len(smartLogs)) \X (1..Len(ch)) :
        /\ ch[j].desc = "nvme_temperature"
        /\ ch[j].labels["device"] = calls[i + 1][3]}

\* C6 as stated: the value of nvme_temperature is the Fahrenheit conversion of
\* the health log's Kelvin temperature field.
C6_TemperatureIsFahrenheit ==
    \A t \in TemperatureSamples :
        ch[t[2]].value = Fahrenheit(ToFloat(RawOf(smartLogs[t[1]].json, "temperature")))

\* C6, amended: the value of nvme_temperature is the normalised value of the
\* health log's temperature field itself, in Kelvin, with no unit conversion
\* (309 yields 309, 300 yields 300), for every device of every pass.
C6_TemperatureIsKelvin ==
    \A t \in TemperatureSamples :
        LET raw == RawOf(smartLogs[t[1]].json, "temperature") IN
        /\ ch[t[2]].value = ToFloat(raw)
        /\ raw = NumberResult(F(309)) => ch[t[2]].value = F(309)
        /\ raw = NumberResult(F(300)) => ch[t[2]].value = F(300)

\* One device reported 309 and the other 300, and both samples were sent.
C6_Witness ==
    /\ Len(smartLogs) = 2
    /\ Len(ch) = 2 * NumMetrics
    /\ RawOf(smartLogs[1].json, "temperature") = NumberResult(F(309))
    /\ RawOf(smartLogs[2].json, "temperature") = NumberResult(F(300))
    /\ Cardinality(TemperatureSamples) = 2

GaugeMetrics ==
    {"nvme_critical_warning", "nvme_temperature", "nvme_avail_spare",
     "nvme_spare_thresh", "nvme_percent_used",
     "nvme_endurance_grp_critical_warning_summary"}

CounterMetrics ==
    {"nvme_data_units_read", "nvme_data_units_written", "nvme_host_read_commands",
     "nvme_host_write_commands", "nvme_controller_busy_time", "nvme_power_cycles",
     "nvme_power_on_hours", "nvme_unsafe_shutdowns", "nvme_media_errors",
     "nvme_num_err_log_entries", "nvme_warning_temp_time",
     "nvme_critical_comp_time", "nvme_thm_temp1_trans_count",
     "nvme_thm_temp2_trans_count", "nvme_thm_temp1_trans_time",
     "nvme_thm_temp2_trans_time"}

\* C7: every sample of the six point-in-time metrics has kind gauge and every
\* sample of the sixteen cumulative metrics has kind counter, whatever the
\* device and the pass.
C7_KindByMetric ==
    \A j \in 1..Len(ch) :
        /\ ch[j].desc \in GaugeMetrics \cup CounterMetrics
        /\ ch[j].desc \in GaugeMetrics => ch[j].valueType = "GaugeValue"
        /\ ch[j].desc \in CounterMetrics => ch[j].valueType = "CounterValue"

\* Two devices' samples were sent: six gauges and sixteen counters each.
C7_Witness ==
    /\ Len(ch) = 2 * NumMetrics
    /\ Cardinality({j \in 1..Len(ch) : ch[j].valueType = "GaugeValue"}) = 12
    /\ Cardinality({j \in 1..Len(ch) : ch[j].valueType = "CounterValue"}) = 32

\* A text with every comma taken out.
WithoutCommas(s) == SelectSeq(s, LAMBDA c : c # ",")

\* C8: for a string-encoded value, ToFloat of the string with commas at any
\* positions equals ToFloat of the same string with all commas removed
\* ("1,20" and "120" both yield 120).
C8_CommasDoNotChangeValue ==
    (tfOut # <<>> /\ tfIn.Type = "String") =>
        /\ tfOut[1] = ToFloat(StringResult(WithoutCommas(tfIn.Str)))
        /\ WithoutCommas(tfIn.Str) = <<"1", "2", "0">> => tfOut[1] = F(120)
        /\ WithoutCommas(tfIn.Str) = <<"1", "2">> => tfOut[1] = F(12)

\* ToFloat was applied to "1,,2" (two commas) and gave 12.
C8_Witness ==
    /\ tfIn = StringResult(<<"1", ",", ",", "2">>)
    /\ tfOut = <<F(12)>>

\* A string value that is no number once its commas are removed.
Unparsable(raw) == raw.Type = "String" /\ ~ParseFloatOk(WithoutCommas(raw.Str))

\* C9: a string field that does not parse as a number after comma removal
\* ("N/A", the empty string) gives value 0 and is no error: the sample
\* of that field is sent with value 0 together with the device's other samples,
\* the process is not terminated by that response (if it is terminated, a later
\* invocation failed), and a pass that ends has sent the samples of all devices.
C9_UnparsableStringYieldsZero ==
    /\ Unparsable(StringResult(<<"N", "/", "A">>))
    /\ Unparsable(StringResult(<<>>))
    /\ \A i \in 1..Len(smartLogs) :
        smartLogs[i].valid =>
            \A m \in 1..NumMetrics :
                Unparsable(RawOf(smartLogs[i].json, CanonicalKeys[m])) =>
                    LET j == NumMetrics * (i - 1) + m IN
                    /\ Len(ch) >= NumMetrics * i
                    /\ ch[j].desc = DeclaredMetrics[m]
                    /\ ch[j].labels["device"] = calls[i + 1][3]
                    /\ ch[j].value = 0
                    /\ pc = "exit" => i < Len(smartLogs) /\ Failed(smartLogs[Len(smartLogs)])
                    /\ PassComplete => Len(ch) = NumMetrics * Len(Devs)

\* The first device reported "N/A" for a field, and the pass went on to the
\* second device and to its end.
C9_Witness ==
    /\ PassComplete
    /\ Len(Devs) = 2
    /\ Len(ch) = 2 * NumMetrics
    /\ \E m \in 1..NumMetrics :
        /\ RawOf(smartLogs[1].json, CanonicalKeys[m]) = StringResult(<<"N", "/", "A">>)
        /\ ch[m].value = 0

\* A pass whose inventory response is well-formed with an empty device array.
EmptyPass == calls # <<>> /\ nvmeDeviceCmd.valid /\ Devs = <<>>

\* The state part of C10: such a pass has made the inventory invocation only,
\* has sent no sample, is not terminated and can only return; and whenever the
\* process is serving, a scrape can start a pass.
C10_EmptyPassState ==
    /\ EmptyPass =>
        /\ pc = "collect"
        /\ fatal = ""
        /\ calls = <<ListCmd>>
        /\ smartLogs = <<>>
        /\ ch = <<>>
        /\ ~ENABLED CollectDevice
        /\ ENABLED CollectReturn
    /\ pc = "serve" => ENABLED CollectList

\* C10: with a well-formed inventory response whose device array is empty, the
\* pass invokes no health-log command, sends no sample and returns without
\* terminating the process, which then serves the next scrape.
C10_EmptyInventoryIsNoError ==
    /\ []C10_EmptyPassState
    /\ [][EmptyPass => (pc' = "serve" /\ fatal' = "")]_vars

\* The inventory invocation returned an empty device array.
C10_Witness ==
    /\ pc = "collect"
    /\ nvmeDeviceCmd = JSON([Devices |-> <<>>])
    /\ calls = <<ListCmd>>
    /\ ch = <<>>

\* The samples that follow from the responses a call received alone: for each
\* health log it obtained without error, in order, the 22 declared metrics
\* with the kind of each, the normalised value of the same-position key of that
\* log, and the path and model of the same-position entry of its inventory.
OwnSamples(l) ==
    LET devs == IF l.nvmeDeviceCmd.valid THEN l.nvmeDeviceCmd.json.Devices ELSE <<>>
        good == SelectSeq(l.smartLogs, LAMBDA o : ~Failed(o))
    IN [j \in 1..(NumMetrics * Len(good)) |->
          LET i == ((j - 1) \div NumMetrics) + 1
              m == ((j - 1) % NumMetrics) + 1
          IN [desc |-> DeclaredMetrics[m],
              valueType |-> IF DeclaredMetrics[m] \in GaugeMetrics
                            THEN "GaugeValue" ELSE "CounterValue",
              value |-> ToFloat(RawOf(good[i].json, CanonicalKeys[m])),
              labels |-> [device |-> devs[i].DevicePath, model |-> devs[i].ModelNumber]]]

\* The state part of C11: what each call has sent is what follows from its own
\* responses; two calls that received the same responses have sent the same
\* samples; a call that is not running holds nothing; and the registered
\* collector's descriptors are those it was constructed with.
C11_IsolatedState ==
    /\ \A p \in Passes : passes[p].ch = OwnSamples(passes[p])
    /\ \A p, q \in Passes :
        (/\ passes[p].nvmeDeviceCmd = passes[q].nvmeDeviceCmd
         /\ passes[p].smartLogs = passes[q].smartLogs)
            => passes[p].ch = passes[q].ch
    /\ \A p \in Passes : passes[p].pc = "idle" => passes[p] = IdlePass
    /\ collector \in {NoCollector, nvmeCollector}
    /\ listening => collector = nvmeCollector

\* The step part of C11: a step changes the locals of at most one call, a call
\* starts from nothing a former call left, and the descriptors of a registered
\* collector never change.
C11_IsolatedStep ==
    /\ \A p, q \in Passes :
        p # q => (passes'[p] = passes[p] \/ passes'[q] = passes[q])
    /\ \A p \in Passes :
        (passes[p].pc = "idle" /\ passes'[p].pc # "idle") =>
            /\ passes'[p].ch = <<>>
            /\ passes'[p].smartLogs = <<>>
            /\ passes'[p].idx = 0
    /\ collector # NoCollector => collector' = collector

\* C11: however two concurrent collection passes interleave, the samples each
\* has sent are determined by the responses it received itself; a step of one
\* pass writes nothing the other pass or a later pass holds; and the 22
\* descriptors are never changed after construction.
C11_PassesAreIsolated ==
    /\ []C11_IsolatedState
    /\ [][C11_IsolatedStep]_vars

\* Both passes are in their loops at once with different inventories and
\* different health logs, and each has sent its own 22 samples.
C11_Witness ==
    /\ passes[1].pc = "collect"
    /\ passes[2].pc = "collect"
    /\ Len(passes[1].ch) = NumMetrics
    /\ Len(passes[2].ch) = NumMetrics
    /\ passes[1].nvmeModelList # passes[2].nvmeModelList
    /\ passes[1].smartLogs # passes[2].smartLogs
    /\ passes[1].ch # passes[2].ch

\* Both startup guards pass on this host.
GuardsPass == ~env.userErr /\ env.Username = "root" /\ ~env.lookPathErr

\* C12: the collector is registered and the listener started only when both
\* startup guards have passed; on a host where the user is not root or nvme is
\* not on the path, main ends in log.Fatal with no collector registered, the
\* listener never started and no invocation of a collection pass ever made;
\* and a pass runs only with the collector registered and the listener started.
C12_ListenerOnlyAfterGuards ==
    /\ (listening \/ collector # NoCollector) => GuardsPass
    /\ (pc # "main" /\ ~GuardsPass) =>
        /\ pc = "exit"
        /\ fatal # ""
        /\ ~listening
        /\ collector = NoCollector
        /\ calls = <<>>
        /\ ch = <<>>
    /\ (pc \in {"serve", "collect"} \/ calls # <<>>) =>
        /\ listening
        /\ collector = nvmeCollector

\* main has ended on a host whose user is not root.
C12_Witness ==
    /\ pc = "exit"
    /\ ~env.userErr
    /\ env.Username = "nobody"
    /\ fatal = "Error: you must be root to use nvme-cli"
    /\ ~listening

====
